---- MODULE Spec2Model ----
(***************************************************************************)
(* memorypilot: the MCP protocol adapter (internal/mcp/server.go), a       *)
(* sequential JSON-RPC loop over stdin/stdout in front of the memory store *)
(* and the embedding gateway.                                              *)
(***************************************************************************)
EXTENDS Integers, Sequences, FiniteSets, TLC

VARIABLES
    pc,        \* position of Run: "start", "read", "handle", "returned"
    cur,       \* the line ReadString returned last
    nRead,     \* number of newline-terminated lines read so far
    output,    \* the lines written to s.writer (stdout), in order
    memories,  \* the store's records, in creation order
    ulids,     \* number of ulid.Make() calls so far
    calls,     \* gateway and store calls made for the current request, with outcomes
    ret,       \* what Run returned: "none" (still running), "nil", "error"
    stdin,     \* the reader: "open", "eof", "eof-partial" (EOF after an unterminated
               \* last line, which is discarded), "failed" (a read error)
    storeOpen, \* TRUE while the store handle opened by NewServer is open
    tpc,       \* truncateStr: "idle", "input" (content chosen), "done"
    tcontent,  \* truncateStr: the content of a remember call, as bytes
    summary,   \* truncateStr: the summary computed for it
    dproc,     \* daemon commands: the process of each pid
    pidFile,   \* daemon commands: content of memorypilot.pid
    removedLive \* daemon commands: TRUE once a stale-file removal deleted the
               \* PID file of a running process

adapterVars == <<pc, cur, nRead, output, memories, ulids, calls, ret, stdin, storeOpen>>
truncVars == <<tpc, tcontent, summary>>
daemonVars == <<dproc, pidFile, removedLive>>
vars == <<pc, cur, nRead, output, memories, ulids, calls, ret, stdin, storeOpen,
          tpc, tcontent, summary, dproc, pidFile, removedLive>>

(***************************************************************************)
(* Bounds of the model.                                                    *)
(***************************************************************************)
MaxLines == 2
\* Longest content given to truncateStr.
MaxContentLen == 103
\* Number of processes (daemon commands and spawned daemons) in a run.
MaxProcs == 2

(***************************************************************************)
(* Program constants.                                                      *)
(***************************************************************************)
ParseErrorCode == -32700
MethodNotFoundCode == -32601
InvalidParamsCode == -32602
InternalErrorCode == -32000
DefaultLimit == 5
\* The maxLen handleRemember passes to truncateStr.
SummaryBound == 100

\* Integers are kept as hi * 2^30 + lo so that values beyond 2^53 can be written.
Pow30 == 2^30
Pow23 == 2^23

(***************************************************************************)
(* Correlation identifiers: the wire form and Go's decoded interface{}.    *)
(***************************************************************************)
IdAbsent == [k |-> "absent", hi |-> 0, lo |-> 0]
IdNull == [k |-> "null", hi |-> 0, lo |-> 0]
IdNum(h, l) == [k |-> "num", hi |-> h, lo |-> l]
Nil == [k |-> "nil", hi |-> 0, lo |-> 0]

\* The identifiers requests are sent with: none, null, 7, 2^53 + 1.
WireIds == {IdAbsent, IdNull, IdNum(0, 7), IdNum(Pow23, 1)}

\* strconv.ParseFloat as json.Unmarshal applies it to a number stored in an
\* interface{}: exact below 2^53, round-half-to-even between 2^53 and 2^54.
Float64(h, l) ==
    IF h < Pow23 \/ l % 2 = 0 THEN [k |-> "float64", hi |-> h, lo |-> l]
    ELSE IF ((l - 1) \div 2) % 2 = 0 THEN [k |-> "float64", hi |-> h, lo |-> l - 1]
    ELSE IF l + 1 = Pow30 THEN [k |-> "float64", hi |-> h + 1, lo |-> 0]
    ELSE [k |-> "float64", hi |-> h, lo |-> l + 1]

\* json.Unmarshal into JSONRPCRequest.ID (interface{}): a missing or null id
\* leaves nil, a number becomes a float64.
UnmarshalID(w) ==
    IF w.k \in {"absent", "null"} THEN Nil ELSE Float64(w.hi, w.lo)

\* json.Marshal of JSONRPCResponse.ID (interface{}, omitempty).
MarshalID(v) ==
    IF v = Nil THEN IdAbsent ELSE IdNum(v.hi, v.lo)

(***************************************************************************)
(* Input lines.  A line either fails json.Unmarshal into JSONRPCRequest or *)
(* decodes to a request.  Missing fields decode to Go's zero values.       *)
(***************************************************************************)
Queries == {"", "redis"}
Limits == {-1, 0, 1}
Contents == {"", "redis", "go"}
TypeArgs == {"", "bogus"}
MemoryTypes == {"decision", "pattern", "fact", "preference", "mistake", "learning"}

NoArgs == [query |-> "", limit |-> 0, content |-> "", type |-> ""]
RecallArgs == {[NoArgs EXCEPT !.query = q, !.limit = l] : q \in Queries, l \in Limits}
RememberArgs == {[NoArgs EXCEPT !.content = c, !.type = t] : c \in Contents, t \in TypeArgs}

\* params: missing or not an object ("bad"), or an object {name, arguments}.
NoParams == [ok |-> FALSE, name |-> "", args |-> NoArgs]
ToolParams ==
    {[ok |-> TRUE, name |-> "memorypilot_recall", args |-> a] : a \in RecallArgs}
    \cup {[ok |-> TRUE, name |-> "memorypilot_remember", args |-> a] : a \in RememberArgs}
    \cup {[ok |-> TRUE, name |-> n, args |-> NoArgs] : n \in {"memorypilot_status", "memorypilot_forget"}}

MalformedLine == [ok |-> FALSE, id |-> IdAbsent, method |-> "", params |-> NoParams]
RequestLines ==
    {[ok |-> TRUE, id |-> i, method |-> m, params |-> NoParams] :
        i \in WireIds, m \in {"initialize", "tools/list", "tools/call", "ping"}}
    \cup {[ok |-> TRUE, id |-> i, method |-> "tools/call", params |-> p] :
        i \in WireIds, p \in ToolParams}
Lines == {MalformedLine} \cup RequestLines

\* Outcomes of embedder.Embed: a vector, an error, or neither.
EmbedOutcomes == {"vec", "err", "none"}

(***************************************************************************)
(* Responses.  line is the number of the input line a response answers     *)
(* (0 for the unsolicited startup message).                                *)
(***************************************************************************)
Body(tag, ids, n) == [tag |-> tag, ids |-> ids, n |-> n]

\* send answering only requests that carry an id.
sendUnlessNotification(resp) ==
    IF resp.id = IdAbsent /\ nRead > 0 THEN output
    ELSE Append(output, [resp EXCEPT !.line = nRead])

\* Server.send: one line appended to the writer.
send(resp) == Append(output, [resp EXCEPT !.line = nRead])

\* Server.sendResult
sendResult(id, result) ==
    send([line |-> 0, id |-> MarshalID(id), kind |-> "result", code |-> 0, body |-> result])

\* Server.sendError
sendError(id, code, message) ==
    send([line |-> 0, id |-> MarshalID(id), kind |-> "error", code |-> code,
          body |-> Body(message, <<>>, 0)])

\* req.ID of the request decoded from the current line.
ReqID == UnmarshalID(cur.id)

(***************************************************************************)
(* Run: startup and the read loop.                                         *)
(***************************************************************************)
\* No summary is being computed.
TruncIdle ==
    /\ tpc = "idle"
    /\ tcontent = <<>>
    /\ summary = <<>>

\* The PID file: missing, or not a number (strconv.Atoi fails).
NoPid == 0
Garbage == -1
\* The pid of a process of an earlier session that has exited.
DeadPid == MaxProcs + 1
Pids == 1..MaxProcs

\* A pid no command has been started under yet.
Unused ==
    [cmd |-> "none", bg |-> FALSE, tty |-> FALSE, at |-> "unused", rd |-> NoPid,
     sig |-> FALSE, agent |-> "none", wrote |-> FALSE, child |-> NoPid, out |-> ""]

\* No daemon command has been given.
DaemonIdle ==
    /\ dproc = [p \in Pids |-> Unused]
    /\ pidFile = NoPid
    /\ removedLive = FALSE

\* NewServer has opened the store; Run has not started.
AdapterInit ==
    /\ pc = "start"
    /\ cur = MalformedLine
    /\ nRead = 0
    /\ output = <<>>
    /\ memories = <<>>
    /\ ulids = 0
    /\ calls = <<>>
    /\ ret = "none"
    /\ stdin = "open"
    /\ storeOpen = TRUE

Init ==
    /\ AdapterInit
    /\ TruncIdle
    /\ DaemonIdle

\* Run entering the loop without the startup message.
sendServerInfoSkipped ==
    /\ pc = "start"
    /\ pc' = "read"
    /\ UNCHANGED <<cur, nRead, output, memories, ulids, calls, ret, stdin, storeOpen, truncVars, daemonVars>>

\* Server.sendServerInfo, called once by Run before the loop.
sendServerInfo ==
    /\ pc = "start"
    /\ output' = sendResult(Nil, Body("serverInfo", <<>>, 0))
    /\ pc' = "read"
    /\ UNCHANGED <<cur, nRead, memories, ulids, calls, ret, stdin, storeOpen, truncVars, daemonVars>>

\* ReadString('\n') returns a complete line.
ReadLine ==
    /\ pc = "read"
    /\ nRead < MaxLines
    /\ \E l \in Lines : cur' = l
    /\ nRead' = nRead + 1
    /\ calls' = <<>>
    /\ pc' = "handle"
    /\ UNCHANGED <<output, memories, ulids, ret, stdin, storeOpen, truncVars, daemonVars>>

\* ReadEOF without the io.EOF test: end of stream reported as a read error.
ReadEOFAsError ==
    /\ pc = "read"
    /\ \E end \in {"eof", "eof-partial"} : stdin' = end
    /\ pc' = "returned"
    /\ ret' = "error"
    /\ UNCHANGED <<cur, nRead, output, memories, ulids, calls, storeOpen, truncVars, daemonVars>>

\* ReadString returns io.EOF, with or without an unterminated partial line:
\* Run returns nil and the partial line is discarded.
ReadEOF ==
    /\ pc = "read"
    /\ \E end \in {"eof", "eof-partial"} : stdin' = end
    /\ pc' = "returned"
    /\ ret' = "nil"
    /\ UNCHANGED <<cur, nRead, output, memories, ulids, calls, storeOpen, truncVars, daemonVars>>

\* ReadString returns another error: Run returns it wrapped.
ReadError ==
    /\ pc = "read"
    /\ stdin' = "failed"
    /\ pc' = "returned"
    /\ ret' = "error"
    /\ UNCHANGED <<cur, nRead, output, memories, ulids, calls, storeOpen, truncVars, daemonVars>>

\* ParseError returning from Run instead of continuing.
ParseErrorReturns ==
    /\ pc = "handle"
    /\ ~cur.ok
    /\ output' = sendError(Nil, ParseErrorCode, "Parse error")
    /\ pc' = "returned"
    /\ ret' = "error"
    /\ UNCHANGED <<cur, nRead, memories, ulids, calls, stdin, storeOpen, truncVars, daemonVars>>

\* json.Unmarshal of the line fails: parse error response, then continue.
ParseError ==
    /\ pc = "handle"
    /\ ~cur.ok
    /\ output' = sendError(Nil, ParseErrorCode, "Parse error")
    /\ pc' = "read"
    /\ UNCHANGED <<cur, nRead, memories, ulids, calls, ret, stdin, storeOpen, truncVars, daemonVars>>

(***************************************************************************)
(* The record store and the embedding gateway (internal/store and          *)
(* internal/embedding), at their boundary.                                 *)
(***************************************************************************)
Call(op, text, limit, id, res) ==
    [op |-> op, text |-> text, limit |-> limit, id |-> id, res |-> res]

\* create: ValidationError when content is empty or type is not in the enumeration.
ValidMemory(m) == m.content # "" /\ m.type \in MemoryTypes

\* Truncation to limit; non-positive limits are treated as the default.
Truncate(ids, limit) ==
    LET n == IF limit <= 0 THEN DefaultLimit ELSE limit
    IN  IF Len(ids) <= n THEN ids ELSE SubSeq(ids, 1, n)

\* The ids of the memories at the positions in keep, most recently created first.
RECURSIVE Newest(_, _, _)
Newest(mems, i, keep) ==
    IF i = 0 THEN <<>>
    ELSE IF i \in keep THEN <<mems[i].id>> \o Newest(mems, i - 1, keep)
    ELSE Newest(mems, i - 1, keep)

\* recall: keyword-only retrieval, truncated to limit.
Recall(mems, query, limit) ==
    LET hit == {i \in 1..Len(mems) : mems[i].content = query}
    IN  Truncate(Newest(mems, Len(mems), hit), limit)

\* Hybrid search: keyword hits rank before records that qualify by their
\* embedding alone; records without embedding keep their keyword rank.
HybridSearch(mems, query, limit) ==
    LET hit == {i \in 1..Len(mems) : mems[i].content = query}
        near == {i \in 1..Len(mems) : mems[i].content # query /\ mems[i].embedded}
    IN  Truncate(Newest(mems, Len(mems), hit) \o Newest(mems, Len(mems), near), limit)

\* An empty query is an InvalidQueryError of the search.
ValidQuery(query) == query # ""

\* updateEmbedding: overwrites the embedding field of record id only.
UpdateMemoryEmbedding(mems, id) ==
    [i \in 1..Len(mems) |->
        IF mems[i].id = id THEN [mems[i] EXCEPT !.embedded = TRUE] ELSE mems[i]]

(***************************************************************************)
(* handleRequest and handleToolsCall: dispatch.                            *)
(***************************************************************************)
handleRequest(req) ==
    IF req.method \in {"initialize", "tools/list", "tools/call"}
    THEN req.method ELSE "default"

\* handleToolsCall falling through to remember in the default case.
handleToolsCallDefaultRemember(params) ==
    IF ~params.ok THEN "invalid"
    ELSE IF params.name \in {"memorypilot_recall", "memorypilot_status"}
    THEN params.name ELSE "memorypilot_remember"

\* handleToolsCall with status as the default case.
handleToolsCallDefaultStatus(params) ==
    IF ~params.ok THEN "invalid"
    ELSE IF params.name \in {"memorypilot_recall", "memorypilot_remember"}
    THEN params.name ELSE "memorypilot_status"

handleToolsCall(params) ==
    IF ~params.ok THEN "invalid"
    ELSE IF params.name \in {"memorypilot_recall", "memorypilot_remember", "memorypilot_status"}
    THEN params.name ELSE "default"

Dispatched(method) == pc = "handle" /\ cur.ok /\ handleRequest(cur) = method
ToolCalled(tool) == Dispatched("tools/call") /\ handleToolsCall(cur.params) = tool

handleInitialize ==
    /\ Dispatched("initialize")
    /\ output' = sendResult(ReqID, Body("initialize", <<>>, 0))
    /\ pc' = "read"
    /\ UNCHANGED <<cur, nRead, memories, ulids, calls, ret, stdin, storeOpen, truncVars, daemonVars>>

handleToolsList ==
    /\ Dispatched("tools/list")
    /\ output' = sendResult(ReqID, Body("tools", <<>>, 3))
    /\ pc' = "read"
    /\ UNCHANGED <<cur, nRead, memories, ulids, calls, ret, stdin, storeOpen, truncVars, daemonVars>>

MethodNotFound ==
    /\ Dispatched("default")
    /\ output' = sendError(ReqID, MethodNotFoundCode, "Method not found")
    /\ pc' = "read"
    /\ UNCHANGED <<cur, nRead, memories, ulids, calls, ret, stdin, storeOpen, truncVars, daemonVars>>

InvalidParams ==
    /\ ToolCalled("invalid")
    /\ output' = sendError(ReqID, InvalidParamsCode, "Invalid params")
    /\ pc' = "read"
    /\ UNCHANGED <<cur, nRead, memories, ulids, calls, ret, stdin, storeOpen, truncVars, daemonVars>>

UnknownTool ==
    /\ ToolCalled("default")
    /\ output' = sendError(ReqID, InvalidParamsCode, "Unknown tool")
    /\ pc' = "read"
    /\ UNCHANGED <<cur, nRead, memories, ulids, calls, ret, stdin, storeOpen, truncVars, daemonVars>>

(***************************************************************************)
(* The three tools.                                                        *)
(***************************************************************************)
\* handleRecall: the limit passed on.
recallLimit(limit) == IF limit = 0 THEN DefaultLimit ELSE limit

\* recallSearch without the nil test of the vector.
recallSearchNoNilTest(emb) == IF emb # "err" THEN "HybridSearch" ELSE "Recall"

\* handleRecall: the search chosen from the gateway's outcome.
recallSearch(emb) == IF emb = "vec" THEN "HybridSearch" ELSE "Recall"

handleRecall ==
    /\ ToolCalled("memorypilot_recall")
    /\ \E emb \in EmbedOutcomes, io \in BOOLEAN :
        LET query == cur.params.args.query
            limit == recallLimit(cur.params.args.limit)
            op == recallSearch(emb)
            ok == io /\ ValidQuery(query)
            found == IF op = "HybridSearch"
                     THEN HybridSearch(memories, query, limit)
                     ELSE Recall(memories, query, limit)
        IN  /\ calls' = <<Call("Embed", query, 0, 0, emb),
                          Call(op, query, limit, 0, IF ok THEN "ok" ELSE "err")>>
            /\ output' = IF ok
                         THEN sendResult(ReqID, Body("recall", found, Len(found)))
                         ELSE sendError(ReqID, InternalErrorCode, "store error")
    /\ pc' = "read"
    /\ UNCHANGED <<cur, nRead, memories, ulids, ret, stdin, storeOpen, truncVars, daemonVars>>

\* handleRemember: the default of the type argument.
rememberType(type) == IF type = "" THEN "fact" ELSE type

\* rememberEmbed testing only the error of Embed, not the vector.
rememberEmbedNoNilTest(id, content, emb, upd) ==
    <<Call("Embed", content, 0, 0, emb)>>
    \o (IF emb # "err"
        THEN <<Call("UpdateMemoryEmbedding", "", 0, id, IF upd THEN "ok" ELSE "err")>>
        ELSE <<>>)

\* handleRemember: the calls that follow a successful CreateMemory.
rememberEmbed(id, content, emb, upd) ==
    <<Call("Embed", content, 0, 0, emb)>>
    \o (IF emb = "vec"
        THEN <<Call("UpdateMemoryEmbedding", "", 0, id, IF upd THEN "ok" ELSE "err")>>
        ELSE <<>>)

\* rememberStored rolling the record back when the embedding step fails.
rememberStoredRollback(mems, memory, emb, upd) ==
    IF emb = "vec" /\ upd
    THEN UpdateMemoryEmbedding(Append(mems, memory), memory.id)
    ELSE mems

\* handleRemember: the store after CreateMemory succeeded and the best-effort
\* embedding step ran.
rememberStored(mems, memory, emb, upd) ==
    IF emb = "vec" /\ upd
    THEN UpdateMemoryEmbedding(Append(mems, memory), memory.id)
    ELSE Append(mems, memory)

handleRemember ==
    /\ ToolCalled("memorypilot_remember")
    /\ ulids' = ulids + 1
    /\ \E io \in BOOLEAN, emb \in EmbedOutcomes, upd \in BOOLEAN :
        LET memory == [id |-> ulids + 1,
                       type |-> rememberType(cur.params.args.type),
                       content |-> cur.params.args.content,
                       embedded |-> FALSE]
            created == io /\ ValidMemory(memory)
            create == Call("CreateMemory", memory.content, 0, memory.id,
                           IF created THEN "ok" ELSE "err")
        IN  IF created
            THEN /\ calls' = <<create>> \o rememberEmbed(memory.id, memory.content, emb, upd)
                 /\ memories' = rememberStored(memories, memory, emb, upd)
                 /\ output' = sendResult(ReqID, Body("remembered", <<memory.id>>, 1))
            ELSE /\ calls' = <<create>>
                 /\ memories' = memories
                 /\ output' = sendError(ReqID, InternalErrorCode, "Failed to save memory")
    /\ pc' = "read"
    /\ UNCHANGED <<cur, nRead, ret, stdin, storeOpen, truncVars, daemonVars>>

\* handleStatus ignoring the error of GetStats.
handleStatusIgnoresError ==
    /\ ToolCalled("memorypilot_status")
    /\ \E io \in BOOLEAN :
        /\ calls' = <<Call("GetStats", "", 0, 0, IF io THEN "ok" ELSE "err")>>
        /\ output' = sendResult(ReqID, Body("status", <<>>, IF io THEN Len(memories) ELSE 0))
    /\ pc' = "read"
    /\ UNCHANGED <<cur, nRead, memories, ulids, ret, stdin, storeOpen, truncVars, daemonVars>>

handleStatus ==
    /\ ToolCalled("memorypilot_status")
    /\ \E io \in BOOLEAN :
        /\ calls' = <<Call("GetStats", "", 0, 0, IF io THEN "ok" ELSE "err")>>
        /\ output' = IF io
                     THEN sendResult(ReqID, Body("status", <<>>, Len(memories)))
                     ELSE sendError(ReqID, InternalErrorCode, "store error")
    /\ pc' = "read"
    /\ UNCHANGED <<cur, nRead, memories, ulids, ret, stdin, storeOpen, truncVars, daemonVars>>

Next ==
    \/ sendServerInfo
    \/ ReadLine
    \/ ReadEOF
    \/ ReadError
    \/ ParseError
    \/ handleInitialize
    \/ handleToolsList
    \/ MethodNotFound
    \/ InvalidParams
    \/ UnknownTool
    \/ handleRecall
    \/ handleRemember
    \/ handleStatus

Spec == Init /\ [][Next]_vars

\* Run is one sequential process that keeps taking its next step.
FairSpec == Spec /\ WF_vars(Next)

(***************************************************************************)
(* truncateStr, as handleRemember applies it to the content.               *)
(***************************************************************************)
\* The bytes of "...".
Ellipsis == <<46, 46, 46>>

\* truncateStr cutting at maxLen without room for the ellipsis.
truncateStrNoRoom(s, maxLen) ==
    IF Len(s) <= maxLen THEN s ELSE SubSeq(s, 1, maxLen) \o Ellipsis

\* truncateStr: len and slicing count bytes.
truncateStr(s, maxLen) ==
    IF Len(s) <= maxLen THEN s ELSE SubSeq(s, 1, maxLen - 3) \o Ellipsis

\* Contents of every length up to MaxContentLen, over the bytes 'a', 'b',
\* '.' and 0xC3 (the first byte of a two-byte rune), in three arrangements.
ContentBytes == <<97, 98, 46, 195>>
ContentInputs ==
    {[i \in 1..n |-> ContentBytes[((i * k) % 4) + 1]] : n \in 0..MaxContentLen, k \in 1..3}

TruncInit ==
    /\ AdapterInit
    /\ DaemonIdle
    /\ tpc = "input"
    /\ tcontent \in ContentInputs
    /\ summary = <<>>

\* handleRemember: Summary: truncateStr(params.Content, 100).
rememberSummary ==
    /\ tpc = "input"
    /\ summary' = truncateStr(tcontent, SummaryBound)
    /\ tpc' = "done"
    /\ UNCHANGED <<adapterVars, daemonVars, tcontent>>

TruncNext == rememberSummary

TruncSpec == TruncInit /\ [][TruncNext]_vars

(***************************************************************************)
(* The daemon commands (cmd/daemon.go): start, stop and status, each a     *)
(* process of its own, sharing the PID file.  A process is named by its    *)
(* pid; every system call of a command is one step.                        *)
(***************************************************************************)

\* The next pid the system hands out.
NextPid == CHOOSE p \in Pids : /\ dproc[p].at = "unused"
                               /\ \A q \in Pids : q < p => dproc[q].at # "unused"
HasFreePid == \E p \in Pids : dproc[p].at = "unused"

\* Signal 0 succeeds exactly for a process that exists.
isProcessRunning(pid) ==
    /\ pid \in Pids
    /\ dproc[pid].at \notin {"unused", "exited", "killed"}

\* os.Remove of the PID file by a command that found it stale.
removePidFile(p) ==
    /\ pidFile' = NoPid
    /\ removedLive' = (removedLive \/ isProcessRunning(pidFile))

\* The command returns: the process exits.
Exit(p, result) ==
    [dproc[p] EXCEPT !.at = "exited", !.out = result, !.sig = FALSE]

\* SIGTERM or SIGINT reaches process t: queued on sigChan once signal.Notify
\* has run, the default action (the process dies at once) before that.
Deliver(procs, t) ==
    IF procs[t].at \in {"s_wait", "s_stopping", "s_return"}
    THEN [procs EXCEPT ![t].sig = TRUE]
    ELSE [procs EXCEPT ![t].at = "killed", ![t].out = "killed",
                       ![t].agent = IF @ = "started" THEN "killed" ELSE @]

\* The user runs a daemon command from a terminal.
Launch ==
    \E kind \in {"start", "stop", "status"}, background \in BOOLEAN :
        /\ HasFreePid
        /\ background => kind = "start"
        /\ dproc' = [dproc EXCEPT ![NextPid] =
               [Unused EXCEPT !.cmd = kind, !.bg = background, !.tty = TRUE,
                              !.at = CASE kind = "start" -> "s_read"
                                       [] kind = "stop" -> "k_read"
                                       [] OTHER -> "t_read"]]
        /\ UNCHANGED <<pidFile, removedLive, adapterVars, truncVars>>

\* readPidFile: the command's first step, the same in all three commands.
readPidFile(p, missing, found) ==
    /\ dproc' = [dproc EXCEPT ![p] =
           IF pidFile \in {NoPid, Garbage}
           THEN missing
           ELSE [dproc[p] EXCEPT !.rd = pidFile, !.at = found]]
    /\ UNCHANGED <<pidFile, removedLive, adapterVars, truncVars>>

startRead ==
    \E p \in Pids :
        /\ dproc[p].at = "s_read"
        /\ readPidFile(p, [dproc[p] EXCEPT !.at = "s_go"], "s_check")

startCheckNeverRefuses ==
    \E p \in Pids :
        /\ dproc[p].at = "s_check"
        /\ dproc' = [dproc EXCEPT ![p].at = "s_remove"]
        /\ UNCHANGED <<pidFile, removedLive, adapterVars, truncVars>>
\* The already-running check: refuse, or go on to remove the stale file.
startCheck ==
    \E p \in Pids :
        /\ dproc[p].at = "s_check"
        /\ dproc' = [dproc EXCEPT ![p] =
               IF isProcessRunning(dproc[p].rd)
               THEN Exit(p, "refused")
               ELSE [dproc[p] EXCEPT !.at = "s_remove"]]
        /\ UNCHANGED <<pidFile, removedLive, adapterVars, truncVars>>

startRemoveStale ==
    \E p \in Pids :
        /\ dproc[p].at = "s_remove"
        /\ removePidFile(p)
        /\ dproc' = [dproc EXCEPT ![p].at = "s_go"]
        /\ UNCHANGED <<adapterVars, truncVars>>

\* --background: bgCmd.Start runs `daemon start` in a new session, or fails.
startSpawn ==
    \E p \in Pids, ok \in BOOLEAN :
        /\ dproc[p].at = "s_go"
        /\ dproc[p].bg
        /\ ok => HasFreePid
        /\ dproc' = IF ok
               THEN [dproc EXCEPT
                        ![p] = [Exit(p, "spawned") EXCEPT !.child = NextPid],
                        ![NextPid] = [Unused EXCEPT !.cmd = "start",
                                                    !.at = "s_read"]]
               ELSE [dproc EXCEPT ![p] = Exit(p, "error")]
        /\ UNCHANGED <<pidFile, removedLive, adapterVars, truncVars>>

\* writePidFile(os.Getpid()); a failure is only a warning.
startWritePid ==
    \E p \in Pids, ok \in BOOLEAN :
        /\ dproc[p].at = "s_go"
        /\ ~dproc[p].bg
        /\ pidFile' = IF ok THEN p ELSE pidFile
        /\ dproc' = [dproc EXCEPT ![p].at = "s_agent", ![p].wrote = ok]
        /\ UNCHANGED <<removedLive, adapterVars, truncVars>>

\* agent.New and a.Start; on a failure the command returns the error and the
\* deferred removePidFile runs.
startAgent ==
    \E p \in Pids, ok \in BOOLEAN :
        /\ dproc[p].at = "s_agent"
        /\ dproc' = [dproc EXCEPT ![p] =
               IF ok
               THEN [dproc[p] EXCEPT !.at = "s_notify", !.agent = "started"]
               ELSE Exit(p, "error")]
        /\ pidFile' = IF ok THEN pidFile ELSE NoPid
        /\ UNCHANGED <<removedLive, adapterVars, truncVars>>

startNotify ==
    \E p \in Pids :
        /\ dproc[p].at = "s_notify"
        /\ dproc' = [dproc EXCEPT ![p].at = "s_wait"]
        /\ UNCHANGED <<pidFile, removedLive, adapterVars, truncVars>>

\* <-sigChan
startWait ==
    \E p \in Pids :
        /\ dproc[p].at = "s_wait"
        /\ dproc[p].sig
        /\ dproc' = [dproc EXCEPT ![p].at = "s_stopping", ![p].sig = FALSE]
        /\ UNCHANGED <<pidFile, removedLive, adapterVars, truncVars>>

\* a.Stop()
startStop ==
    \E p \in Pids :
        /\ dproc[p].at = "s_stopping"
        /\ dproc' = [dproc EXCEPT ![p].at = "s_return", ![p].agent = "stopped"]
        /\ UNCHANGED <<pidFile, removedLive, adapterVars, truncVars>>

\* return nil: the deferred removePidFile runs.
startReturn ==
    \E p \in Pids :
        /\ dproc[p].at = "s_return"
        /\ pidFile' = NoPid
        /\ dproc' = [dproc EXCEPT ![p] = Exit(p, "done")]
        /\ UNCHANGED <<removedLive, adapterVars, truncVars>>

stopRead ==
    \E p \in Pids :
        /\ dproc[p].at = "k_read"
        /\ readPidFile(p, Exit(p, "not running"), "k_check")

stopCheck ==
    \E p \in Pids :
        /\ dproc[p].at = "k_check"
        /\ dproc' = [dproc EXCEPT ![p].at =
               IF isProcessRunning(dproc[p].rd) THEN "k_signal" ELSE "k_remove"]
        /\ UNCHANGED <<pidFile, removedLive, adapterVars, truncVars>>

stopRemoveStale ==
    \E p \in Pids :
        /\ dproc[p].at = "k_remove"
        /\ removePidFile(p)
        /\ dproc' = [dproc EXCEPT ![p] = Exit(p, "not running")]
        /\ UNCHANGED <<adapterVars, truncVars>>

\* process.Signal(SIGTERM), then the report that the daemon stopped; an
\* error when the process has exited in the meantime.
stopSignal ==
    \E p \in Pids :
        /\ dproc[p].at = "k_signal"
        /\ dproc' = IF isProcessRunning(dproc[p].rd)
               THEN [Deliver(dproc, dproc[p].rd) EXCEPT ![p] = Exit(p, "stopped")]
               ELSE [dproc EXCEPT ![p] = Exit(p, "error")]
        /\ UNCHANGED <<pidFile, removedLive, adapterVars, truncVars>>

statusRead ==
    \E p \in Pids :
        /\ dproc[p].at = "t_read"
        /\ readPidFile(p, Exit(p, "not running"), "t_check")

statusCheck ==
    \E p \in Pids :
        /\ dproc[p].at = "t_check"
        /\ dproc' = [dproc EXCEPT ![p] =
               IF isProcessRunning(dproc[p].rd)
               THEN Exit(p, "running")
               ELSE [dproc[p] EXCEPT !.at = "t_remove"]]
        /\ UNCHANGED <<pidFile, removedLive, adapterVars, truncVars>>

statusRemoveStale ==
    \E p \in Pids :
        /\ dproc[p].at = "t_remove"
        /\ removePidFile(p)
        /\ dproc' = [dproc EXCEPT ![p] = Exit(p, "not running")]
        /\ UNCHANGED <<adapterVars, truncVars>>

\* Ctrl+C in the terminal of a foreground `daemon start`.
Interrupt ==
    \E p \in Pids :
        /\ dproc[p].cmd = "start"
        /\ dproc[p].tty
        /\ ~dproc[p].bg
        /\ isProcessRunning(p)
        /\ dproc' = Deliver(dproc, p)
        /\ UNCHANGED <<pidFile, removedLive, adapterVars, truncVars>>

\* The PID file an earlier session left behind, if any.
DaemonInit ==
    /\ AdapterInit
    /\ TruncIdle
    /\ dproc = [p \in Pids |-> Unused]
    /\ pidFile \in {NoPid, Garbage, DeadPid}
    /\ removedLive = FALSE

DaemonNext ==
    \/ Launch
    \/ startRead
    \/ startCheck
    \/ startRemoveStale
    \/ startSpawn
    \/ startWritePid
    \/ startAgent
    \/ startNotify
    \/ startWait
    \/ startStop
    \/ startReturn
    \/ stopRead
    \/ stopCheck
    \/ stopRemoveStale
    \/ stopSignal
    \/ statusRead
    \/ statusCheck
    \/ statusRemoveStale
    \/ Interrupt

DaemonSpec == DaemonInit /\ [][DaemonNext]_vars

(***************************************************************************)
(* Properties.                                                             *)
(***************************************************************************)
\* The last line written, and whether the line in cur has been answered.
Last == output[Len(output)]
Answered == pc \in {"read", "returned"} /\ nRead >= 1
AnsweredTool(tool) ==
    /\ Answered
    /\ cur.ok
    /\ cur.method = "tools/call"
    /\ cur.params.ok
    /\ cur.params.name = tool
StoreOps == {"HybridSearch", "Recall", "CreateMemory", "GetStats"}

\* C1: the response written for a request that decoded carries the request's
\* id unchanged, a null or absent id included.
C1_ResponseCarriesRequestId ==
    (Answered /\ cur.ok) => (Last.line = nRead /\ Last.id = cur.id)

\* C2: a line that cannot be decoded is answered by exactly one error
\* response with code -32700, changes nothing else, and leaves Run in its
\* loop, ready to read the next line.
C2_ParseErrorContinues ==
    [][(pc = "handle" /\ ~cur.ok) =>
        /\ pc' = "read"
        /\ ret' = "none"
        /\ Len(output') = Len(output) + 1
        /\ output'[Len(output')].kind = "error"
        /\ output'[Len(output')].code = -32700
        /\ output'[Len(output')].line = nRead
        /\ SubSeq(output', 1, Len(output)) = output
        /\ memories' = memories
        /\ calls' = <<>>]_vars

\* A malformed first line was answered with -32700 and the valid second
\* line with a result.
C2_Witness ==
    /\ Len(output) = 3
    /\ output[2].code = -32700
    /\ output[3].kind = "result"
    /\ output[3].line = 2
    /\ cur.ok

\* C3: a recall call asks the gateway with the raw query first and then
\* makes exactly one search: HybridSearch iff the gateway gave a vector
\* without error, else Recall, with the same query and limit.  Only a
\* failure of the search gives an error response; without a vector the
\* list returned is the one Recall gives.
C3_RecallGatewayThenOneSearch ==
    AnsweredTool("memorypilot_recall") =>
        LET query == cur.params.args.query
            limit == IF cur.params.args.limit = 0 THEN 5 ELSE cur.params.args.limit
        IN  /\ Len(calls) = 2
            /\ calls[1].op = "Embed"
            /\ calls[1].text = query
            /\ calls[2].op \in {"HybridSearch", "Recall"}
            /\ (calls[2].op = "HybridSearch") <=> (calls[1].res = "vec")
            /\ calls[2].text = query
            /\ calls[2].limit = limit
            /\ (Last.kind = "error") <=> (calls[2].res = "err")
            /\ (calls[1].res # "vec" /\ calls[2].res = "ok") =>
                   (Last.kind = "result" /\ Last.body.ids = Recall(memories, query, limit))

\* A recall answered with a non-empty list while the gateway failed.
C3_Witness ==
    /\ AnsweredTool("memorypilot_recall")
    /\ calls[1].res = "err"
    /\ Last.kind = "result"
    /\ Len(Last.body.ids) >= 1

\* C4: once CreateMemory succeeded, a failure of the embedding step leaves
\* the response a success naming the new id and the record in the store;
\* no later step removes or changes the content of a stored record.
C4_EmbeddingFailureKeepsWrite ==
    /\ [](AnsweredTool("memorypilot_remember") /\ calls[1].res = "ok" =>
            /\ Last.kind = "result"
            /\ Last.body.ids = <<calls[1].id>>
            /\ \E i \in 1..Len(memories) :
                  /\ memories[i].id = calls[1].id
                  /\ memories[i].content = cur.params.args.content)
    /\ [][/\ Len(memories') >= Len(memories)
          /\ \A i \in 1..Len(memories) :
                /\ memories'[i].id = memories[i].id
                /\ memories'[i].content = memories[i].content
                /\ memories'[i].type = memories[i].type]_vars

\* A remember whose record was created and whose embedding step failed.
C4_Witness ==
    /\ AnsweredTool("memorypilot_remember")
    /\ calls[1].res = "ok"
    /\ \/ calls[2].res \in {"err", "none"}
       \/ (Len(calls) = 3 /\ calls[3].res = "err")
    /\ Last.kind = "result"

\* C5: exactly one response per line read, written before the next line is
\* read: the k-th response after the startup message answers the k-th line.
C5_OneResponsePerLineInOrder ==
    /\ pc = "start" => output = <<>>
    /\ pc = "handle" => Len(output) = nRead
    /\ pc \in {"read", "returned"} => Len(output) = nRead + 1
    /\ \A k \in 1..Len(output) : output[k].line = k - 1

\* Two lines were read and answered.
C5_Witness ==
    /\ pc = "read"
    /\ nRead = 2
    /\ Len(output) = 3
    /\ output[3].line = 2

\* C6: an unknown method is rejected with -32601, and a tools/call with
\* undecodable params or an unknown tool name with -32602, in both cases
\* without any call to the gateway or the store.
C6_DispatchRejects ==
    (Answered /\ cur.ok) =>
        /\ cur.method \notin {"initialize", "tools/list", "tools/call"} =>
              (Last.kind = "error" /\ Last.code = -32601 /\ calls = <<>>)
        /\ (/\ cur.method = "tools/call"
            /\ \/ ~cur.params.ok
               \/ cur.params.name \notin
                     {"memorypilot_recall", "memorypilot_remember", "memorypilot_status"}) =>
              (Last.kind = "error" /\ Last.code = -32602 /\ calls = <<>>)

\* A tools/call naming an unknown tool was rejected.
C6_Witness ==
    /\ AnsweredTool("memorypilot_forget")
    /\ Last.code = -32602

\* C7: a failure of HybridSearch, Recall, CreateMemory or GetStats is
\* answered by one error response with code -32000, and Run returns only
\* from its read, on end of input or a read error.
C7_StoreFailureSurfaced ==
    /\ [](/\ (Answered /\ \E i \in 1..Len(calls) :
                               calls[i].op \in StoreOps /\ calls[i].res = "err") =>
                 /\ Last.kind = "error"
                 /\ Last.code = -32000
                 /\ Last.line = nRead
                 /\ Len(output) = nRead + 1
          /\ pc = "returned" <=> stdin # "open")
    /\ [][(pc = "handle" => pc' = "read") /\ (pc' = "returned" => pc = "read")]_vars

\* A status call whose GetStats failed was answered and the loop goes on.
C7_Witness ==
    /\ pc = "read"
    /\ AnsweredTool("memorypilot_status")
    /\ calls[1].res = "err"

\* C8: Run eventually returns; at end of stream it has returned nil, after
\* answering every newline-terminated line it read.
C8_ReturnsNilOnEOF ==
    /\ <>(pc = "returned")
    /\ [](stdin \in {"eof", "eof-partial"} =>
            /\ pc = "returned"
            /\ ret = "nil"
            /\ Len(output) = nRead + 1
            /\ \A k \in 1..nRead : output[k + 1].line = k)

\* End of stream after two answered lines.
C8_Witness ==
    /\ stdin = "eof"
    /\ ret = "nil"
    /\ nRead = 2

\* C9: the first line written is the unsolicited startup message, written
\* before any line is read, also when the input is empty; no later line is
\* unsolicited.
C9_OneStartupMessageFirst ==
    /\ pc = "start" => (nRead = 0 /\ output = <<>>)
    /\ pc # "start" =>
          /\ Len(output) >= 1
          /\ output[1].line = 0
          /\ output[1].kind = "result"
          /\ output[1].body.tag = "serverInfo"
          /\ \A k \in 2..Len(output) :
                output[k].line >= 1 /\ output[k].body.tag # "serverInfo"

\* The input was empty: only the startup message was written.
C9_Witness ==
    /\ stdin = "eof"
    /\ nRead = 0
    /\ Len(output) = 1
    /\ output[1].body.tag = "serverInfo"

\* C10: a remember call with missing or empty content is answered with an
\* error without CreateMemory being invoked, and adds no record.
C10_EmptyContentNotCreated ==
    (AnsweredTool("memorypilot_remember") /\ cur.params.args.content = "") =>
        /\ Last.kind = "error"
        /\ \A i \in 1..Len(calls) : calls[i].op # "CreateMemory"
        /\ \A i \in 1..Len(memories) : memories[i].content # ""

\* C11: the limit a recall call passes to its search is positive: a missing,
\* zero or negative limit becomes the default 5, a positive one is kept.
C11_SearchLimitPositive ==
    (AnsweredTool("memorypilot_recall") /\ Len(calls) = 2) =>
        /\ calls[2].limit > 0
        /\ calls[2].limit =
              IF cur.params.args.limit <= 0 THEN 5 ELSE cur.params.args.limit

\* C12: a recall call with an empty or missing query is answered with an
\* error and runs no search.
C12_EmptyQueryRejected ==
    (AnsweredTool("memorypilot_recall") /\ cur.params.args.query = "") =>
        /\ Last.kind = "error"
        /\ \A i \in 1..Len(calls) : calls[i].op \notin {"HybridSearch", "Recall"}

\* C15: a remember call makes its calls in the order CreateMemory, Embed,
\* UpdateMemoryEmbedding; the update is made only after a successful create,
\* only for the id just created and only when the gateway gave a vector; a
\* failed create is followed by no other call and answered with an error.
C15_RememberCallOrder ==
    AnsweredTool("memorypilot_remember") =>
        /\ Len(calls) \in 1..3
        /\ calls[1].op = "CreateMemory"
        /\ calls[1].res = "err" => (Len(calls) = 1 /\ Last.kind = "error")
        /\ Len(calls) >= 2 =>
              /\ calls[1].res = "ok"
              /\ calls[2].op = "Embed"
              /\ calls[2].text = cur.params.args.content
        /\ Len(calls) = 3 =>
              /\ calls[2].res = "vec"
              /\ calls[3].op = "UpdateMemoryEmbedding"
              /\ calls[3].id = calls[1].id
        /\ \A i \in 1..Len(memories) :
              (memories[i].id = calls[1].id /\ memories[i].embedded) =>
                  (Len(calls) = 3 /\ calls[3].res = "ok")

\* A remember that created its record and stored the embedding.
C15_Witness ==
    /\ AnsweredTool("memorypilot_remember")
    /\ Len(calls) = 3
    /\ calls[3].res = "ok"
    /\ memories[Len(memories)].embedded

\* C16: CreateMemory is invoked at most once per remember call and by no
\* other request; parse errors, initialize, tools/list, status and rejected
\* requests call neither CreateMemory, UpdateMemoryEmbedding nor the gateway
\* (status calls GetStats only); the store's records change in no other step.
C16_OnlyRememberWrites ==
    /\ [](Answered =>
            /\ Cardinality({i \in 1..Len(calls) : calls[i].op = "CreateMemory"}) <= 1
            /\ (\E i \in 1..Len(calls) :
                    calls[i].op \in {"CreateMemory", "UpdateMemoryEmbedding"}) =>
                  AnsweredTool("memorypilot_remember")
            /\ (\E i \in 1..Len(calls) : calls[i].op = "Embed") =>
                  (AnsweredTool("memorypilot_remember") \/ AnsweredTool("memorypilot_recall"))
            /\ AnsweredTool("memorypilot_status") =>
                  (Len(calls) = 1 /\ calls[1].op = "GetStats"))
    /\ [][(memories' # memories \/ ulids' # ulids) =>
            /\ pc = "handle"
            /\ cur.ok
            /\ cur.method = "tools/call"
            /\ cur.params.ok
            /\ cur.params.name = "memorypilot_remember"
            /\ Len(memories') <= Len(memories) + 1]_vars

\* A status call answered from a store that holds a record.
C16_Witness ==
    /\ AnsweredTool("memorypilot_status")
    /\ calls[1].op = "GetStats"
    /\ calls[1].res = "ok"
    /\ Len(memories) = 1
    /\ Last.body.n = 1

\* C13: whenever Run has returned, on end of stream or on a read error, the
\* store handle opened by NewServer has been closed.
C13_StoreClosedOnReturn ==
    pc = "returned" => ~storeOpen

\* C14: the summary of a content longer than the bound has exactly the
\* bound's length: the first bound - 3 bytes of the content, then "...";
\* a content at or under the bound is its own summary.
C14_SummaryTruncation ==
    tpc = "done" =>
        IF Len(tcontent) > 100
        THEN /\ Len(summary) = 100
             /\ SubSeq(summary, 1, 97) = SubSeq(tcontent, 1, 97)
             /\ SubSeq(summary, 98, 100) = <<46, 46, 46>>
        ELSE summary = tcontent

\* A content one byte over the bound was summarised.
C14_Witness ==
    /\ tpc = "done"
    /\ Len(tcontent) = 101
    /\ Len(summary) = 100

(***************************************************************************)
(* The daemon commands.                                                    *)
(***************************************************************************)

\* A daemon instance in the running state: PID file written, agent started,
\* not yet shut down.
Running(p) ==
    /\ dproc[p].cmd = "start"
    /\ dproc[p].wrote
    /\ dproc[p].agent = "started"

\* C17: under any interleaving of concurrently issued `daemon start`
\* commands, at most one daemon instance is in the running state at a time.
C17_AtMostOneRunning ==
    Cardinality({p \in Pids : Running(p)}) <= 1

\* C18: from its successful PID-file write until its shutdown, a daemon's PID
\* file exists and holds its pid, and start, stop and status remove the file
\* only when the process it names is not running.
C18_PidFileNamesLiveDaemon ==
    /\ \A p \in Pids :
           (/\ dproc[p].wrote
            /\ dproc[p].at \in {"s_agent", "s_notify", "s_wait", "s_stopping"})
           => pidFile = p
    /\ ~removedLive

\* C19: once `daemon stop` has reported that the daemon stopped, the daemon
\* it signalled has shut down and its PID file has been removed.
C19_StopReportsAfterShutdown ==
    \A p \in Pids :
        (dproc[p].cmd = "stop" /\ dproc[p].out = "stopped")
        => /\ dproc[dproc[p].rd].agent # "started"
           /\ ~isProcessRunning(dproc[p].rd)
           /\ pidFile # dproc[p].rd

\* C20: `daemon start` refuses exactly when the PID file it read names a
\* running process; refusing, it returns without writing the PID file,
\* starting an agent or spawning a process; when the file is missing or
\* unreadable it goes on to start, and when the file names a process that is
\* not running it removes the file and then goes on to start.
C20_StartRefusesExactlyWhenRunning ==
    /\ [][\A p \in Pids :
            dproc[p].cmd = "start" =>
            /\ (dproc[p].at = "s_read" /\ dproc'[p].at \notin {"s_read", "killed"})
               => IF pidFile \in {NoPid, Garbage}
                  THEN dproc'[p].at = "s_go"
                  ELSE dproc'[p].at = "s_check" /\ dproc'[p].rd = pidFile
            /\ (dproc[p].at = "s_check" /\ dproc'[p].at \notin {"s_check", "killed"})
               => IF isProcessRunning(dproc[p].rd)
                  THEN /\ dproc'[p].at = "exited"
                       /\ dproc'[p].out = "refused"
                       /\ pidFile' = pidFile
                       /\ \A q \in Pids \ {p} : dproc'[q] = dproc[q]
                  ELSE dproc'[p].at = "s_remove"
            /\ (dproc[p].at = "s_remove" /\ dproc'[p].at \notin {"s_remove", "killed"})
               => dproc'[p].at = "s_go" /\ pidFile' = NoPid
            /\ (dproc[p].at = "s_go" /\ dproc'[p].at \notin {"s_go", "killed"})
               => \/ dproc'[p].at = "s_agent"
                  \/ dproc[p].bg /\ dproc'[p].out \in {"spawned", "error"}
            /\ (dproc'[p].out = "refused" /\ dproc[p].out # "refused")
               => dproc[p].at = "s_check" /\ isProcessRunning(dproc[p].rd)
         ]_vars
    /\ [](\A p \in Pids :
            dproc[p].out = "refused"
            => /\ dproc[p].cmd = "start"
               /\ dproc[p].agent = "none"
               /\ ~dproc[p].wrote
               /\ dproc[p].child = NoPid)

\* A start has refused while a daemon runs under the pid in the PID file.
C20_Witness ==
    \E p, q \in Pids :
        /\ dproc[p].out = "refused"
        /\ dproc[p].rd = q
        /\ Running(q)
        /\ pidFile = q

====
